---- MODULE Spec2Model ----
\* Migration tracking of the kvm-node-agent: the registry of migration watches
\* (startMigrationWatch / stopMigrationWatch), the per-domain watcher
\* (watchMigrationLoop), one status update (patchMigration with
\* populateDomainJobInfo) and the lifecycle handlers that drive them,
\* as written in internal/libvirt/libvirt_events.go.
EXTENDS Integers, Sequences, FiniteSets, TLC

\* ---------------------------------------------------------------- bounds
\* goroutines that dispatch libvirt events to the handlers (Connect starts one
\* event loop per call and an old loop survives a disconnect)
NumThreads == 2
\* watcher goroutines that may be spawned in one behaviour
MaxWatches == 2
\* watcher goroutines spawned in a behaviour that follows the records closely
MaxPolling == 1

Domains == {"vm-1", "vm-2"}
Threads == 1..NumThreads
Watches == (NumThreads + 1)..(NumThreads + MaxWatches)
Procs   == Threads \cup Watches

\* ------------------------------------------------------------- constants
VIR_DOMAIN_JOB_NONE      == 0
VIR_DOMAIN_JOB_BOUNDED   == 1
VIR_DOMAIN_JOB_UNBOUNDED == 2
VIR_DOMAIN_JOB_COMPLETED == 3
VIR_DOMAIN_JOB_FAILED    == 4
VIR_DOMAIN_JOB_CANCELLED == 5

\* sys.NodeLabelName: the name of the host the agent runs on
NodeLabelName == "host-A"

NoWatch  == 0
NoDomain == "-"
Unlocked == 0
NotFound == [exists |-> FALSE]
NoRecord == [none |-> TRUE]

Terminal    == {"completed", "failed", "cancelled", "success"}
NonTerminal == {"none", "bounded", "unbounded"}

\* v1alpha1.Migration as created by client.Create: every status field zero
EmptyMigration ==
    [exists |-> TRUE, Type |-> "", ErrMsg |-> "", Destination |-> "",
     Origin |-> "", Started |-> 0, TimeElapsed |-> "", TimeRemaining |-> "",
     Downtime |-> "", SetupTime |-> ""]

StatusFields ==
    {"Type", "ErrMsg", "Destination", "Origin", "Started", "TimeElapsed",
     "TimeRemaining", "Downtime", "SetupTime"}

\* ------------------------------------------------------- daemon answers
\* error texts as word sequences, so that a suffix test is a real test
ErrNotRunning == <<"Requested operation is not valid:", "domain is not running">>
ErrInternal   == <<"internal error:", "client socket is closed">>

Param(f, v) == [Field |-> f, Value |-> v]

\* typed parameter lists the daemon may return with a job
Job(rType, params) == [err |-> <<>>, rType |-> rType, params |-> params]
Failure(err) == [err |-> err, rType |-> 0, params |-> <<>>]

\* the answers of DomainGetJobStats the model draws from
JobStatsResults ==
    { Job(VIR_DOMAIN_JOB_NONE, <<>>),
      Job(VIR_DOMAIN_JOB_BOUNDED, <<Param("no_such_field", 7)>>),
      Job(VIR_DOMAIN_JOB_COMPLETED, <<>>),
      Failure(ErrNotRunning),
      Failure(ErrInternal) }

\* the values of the time parameters the model draws from, and the
\* parameters that carry them
DurationInputs == {0, 5, 1500, 61000, 3600000, 5000000, 0 - 5}
DurationParams == {"time_elapsed", "downtime", "setup_time"}

\* running jobs that report one time parameter
DurationResults ==
    {Job(VIR_DOMAIN_JOB_UNBOUNDED, <<Param(f, v)>>) :
        f \in DurationParams, v \in DurationInputs}

\* the values of time_remaining the model draws from: below and from
\* 4295 on, where the product with 1000 * 1000 reaches 2^32
RemainingInputs == {0, 5, 4294, 4295, 5000, 2147483647}

\* running jobs that report time_remaining
RemainingResults ==
    {Job(VIR_DOMAIN_JOB_UNBOUNDED, <<Param("time_remaining", v)>>) :
        v \in RemainingInputs}

\* the job types of a present job
PresentJobTypes ==
    {VIR_DOMAIN_JOB_BOUNDED, VIR_DOMAIN_JOB_UNBOUNDED, VIR_DOMAIN_JOB_COMPLETED,
     VIR_DOMAIN_JOB_FAILED, VIR_DOMAIN_JOB_CANCELLED}

\* parameter lists with and without success, errmsg and a name the decoder
\* does not know
PhaseParams ==
    { <<>>,
      <<Param("success", 1)>>,
      <<Param("errmsg", "boom")>>,
      <<Param("no_such_field", 7)>>,
      <<Param("errmsg", "boom"), Param("success", 1)>>,
      <<Param("success", 1), Param("no_such_field", 7)>> }

\* present jobs of every type with these parameter lists
PhaseResults == {Job(rType, ps) : rType \in PresentJobTypes, ps \in PhaseParams}

\* strings.HasSuffix on word sequences
HasSuffix(s, suffix) ==
    /\ Len(s) >= Len(suffix)
    /\ SubSeq(s, Len(s) - Len(suffix) + 1, Len(s)) = suffix

\* ------------------------------------------------------- event channels
\* libvirt.DomainEventID: the categories of events the agent subscribes to
Categories == {"lifecycle", "migration_iteration"}
\* the handlerId strings of WatchDomainChanges
HandlerIds == {"h1", "h2"}
\* the handler functions
Callbacks == {"f", "g"}
NoHandler == "-"

\* a category without channel, and the channel SubscribeEvents returns
NoChannel == [st |-> "none", n |-> 0]
OpenChannel == [st |-> "open", n |-> 0]

\* -------------------------------------------------- shutdown inhibition
\* inhibition locks taken in one behaviour
MaxInhibits == 2

\* the shutdown goroutines, one for every lock taken, and the reconciler
Inhibits == 1..MaxInhibits
Reconciler == 0
Callers == {Reconciler} \cup Inhibits

\* fd of a connection that holds no inhibition lock
NoFd == 0 - 1

\* make(chan *dbus.Signal, 1): the capacity of prepareForShutdownSignal
SignalBuffer == 1

\* ------------------------------------------------------------ variables
VARIABLES
    store,          \* Migration objects in the cluster, by domain
    migrationJobs,  \* l.migrationJobs: domain -> watch whose cancel func is stored
    migrationLock,  \* l.migrationLock: the thread holding it, or Unlocked
    pc,             \* position of every thread and watcher
    dom,            \* the domain a thread's handler / a watcher works on
    event,          \* event loops: the kind of the event being handled
    original,       \* patchMigration: the object read by client.Get
    patch,          \* the merge patch a process is about to send
    decoded,        \* patchMigration: the error and phase populateDomainJobInfo gave
    ctx,            \* watch context: "none", "active", "canceled", "deadline"
    nextWatch,      \* the next watcher goroutine to be spawned
    wroteTerminal,  \* history: the watcher has written a terminal phase
    domEventChs,    \* l.domEventChs: the event channel of every category
    domEventChangeHandlers, \* l.domEventChangeHandlers: category -> id -> handler
    registered,     \* history: the handler ids of a category, in registration order
    eventLoop,      \* runEventLoop: its position, context and the event in hand
    virt,           \* the libvirt connection: disconnected, events sent so far
    lastWatch,      \* the last call of WatchDomainChanges and what its caller got
    fd,             \* s.fd: the descriptor of the inhibition lock, or -1
    openFds,        \* the descriptors of inhibition locks that are not closed
    prepareForShutdownSignal, \* s.prepareForShutdownSignal: signals buffered, registered
    task,           \* position of the reconciler and of every shutdown goroutine
    evacuateOnReboot, \* r.evacuateOnReboot: what the reconciler has applied
    wanted          \* hypervisor.Spec.EvacuateOnReboot

\* the state of the migration watches
watchVars == <<store, migrationJobs, migrationLock, pc, dom, event, original, patch,
               decoded, ctx, nextWatch, wroteTerminal>>

\* the state of the event channels and their handlers
muxVars == <<domEventChs, domEventChangeHandlers, registered, eventLoop, virt,
             lastWatch>>

\* the state of the shutdown inhibition
sysVars == <<fd, openFds, prepareForShutdownSignal, task, evacuateOnReboot, wanted>>

vars == <<store, migrationJobs, migrationLock, pc, dom, event, original, patch,
          decoded, ctx, nextWatch, wroteTerminal, domEventChs,
          domEventChangeHandlers, registered, eventLoop, virt, lastWatch,
          fd, openFds, prepareForShutdownSignal, task, evacuateOnReboot, wanted>>

\* ------------------------------------------------------------ the store
\* client.MergeFrom(original): the merge patch holds the fields of the
\* modified copy that differ from the original, as <<field, value>> pairs
MergeFrom(orig, modified) ==
    {<<f, modified[f]>> : f \in {g \in StatusFields : modified[g] # orig[g]}}

\* the fields a merge patch names
PatchFields(doc) == {pr[1] : pr \in doc}

\* the API server applies a merge patch to the object it holds
ApplyPatch(stored, doc) ==
    [f \in DOMAIN stored |->
        IF f \in PatchFields(doc) THEN (CHOOSE pr \in doc : pr[1] = f)[2]
        ELSE stored[f]]

\* every client call made with context.Background()
CtxAlive_Background(p) == TRUE

\* the context a process hands to its client calls is alive: a watcher's
\* own context, context.Background() for the event loop
CtxAlive(p) == IF p \in Watches THEN ctx[p] = "active" ELSE TRUE

\* ------------------------------------------------------------- decoder
\* a decoder that takes every present job for a completed one
JobTypeImage_Completed(rType, cur) == "completed"

\* the switch on rType of populateDomainJobInfo
JobTypeImage(rType, cur) ==
    CASE rType = VIR_DOMAIN_JOB_BOUNDED   -> "bounded"
      [] rType = VIR_DOMAIN_JOB_UNBOUNDED -> "unbounded"
      [] rType = VIR_DOMAIN_JOB_COMPLETED -> "completed"
      [] rType = VIR_DOMAIN_JOB_FAILED    -> "failed"
      [] rType = VIR_DOMAIN_JOB_CANCELLED -> "cancelled"
      [] OTHER -> cur

\* a time.Duration: a sign, whole milliseconds and the nanoseconds below
\* the millisecond
Duration(neg, ms, ns) == [neg |-> neg, ms |-> ms, ns |-> ns]

\* fmtFrac of package time: the digits of v after the point, prec of them,
\* trailing zeros left out
RECURSIVE FracDigits(_, _, _)
FracDigits(v, prec, print) ==
    IF prec = 0 THEN ""
    ELSE LET digit == v % 10
             p2 == print \/ digit # 0
         IN FracDigits(v \div 10, prec - 1, p2)
                \o (IF p2 THEN ToString(digit) ELSE "")

fmtFrac(v, prec) ==
    LET ds == FracDigits(v, prec, FALSE) IN IF ds = "" THEN "" ELSE "." \o ds

\* time.Duration.String()
DurationString(d) ==
    LET sub == (d.ms % 1000) * 1000000 + d.ns
        secs == d.ms \div 1000
        mins == secs \div 60
        hours == mins \div 60
        text ==
            IF secs = 0
            THEN CASE sub = 0 -> "0s"
                   [] sub > 0 /\ sub < 1000 -> ToString(sub) \o "ns"
                   [] sub >= 1000 /\ sub < 1000000 ->
                        ToString(sub \div 1000) \o fmtFrac(sub % 1000, 3) \o "µs"
                   [] OTHER ->
                        ToString(sub \div 1000000) \o fmtFrac(sub % 1000000, 6)
                            \o "ms"
            ELSE (IF hours > 0 THEN ToString(hours) \o "h" ELSE "")
                 \o (IF mins > 0 THEN ToString(mins % 60) \o "m" ELSE "")
                 \o ToString(secs % 60) \o fmtFrac(sub, 9) \o "s"
    IN IF d.neg /\ text # "0s" THEN "-" \o text ELSE text

\* a decoder that multiplies by 1000 only
ScaleInt64_Thousand(v) ==
    LET a == IF v < 0 THEN 0 - v ELSE v IN
    Duration(v < 0, a \div 1000, (a % 1000) * 1000)

\* time.Duration(v * 1000 * 1000) for an int64 v: v * 10^6 nanoseconds
\* (for v whose product stays below 2^63)
ScaleInt64(v) == Duration(v < 0, IF v < 0 THEN 0 - v ELSE v, 0)

\* time.Duration(v * 1000 * 1000) for a uint32 v: the product is taken
\* modulo 2^32, here on 16 bit halves, 1000 * 1000 = 15 * 65536 + 16960
ScaleUint32(v) ==
    LET lo == (v % 65536) * 16960
        cross == (v % 65536) * 15 + (v \div 65536) * 16960 + lo \div 65536
        lo16 == lo % 65536
        hi16 == cross % 65536
        rem == (hi16 \div 1000) * 536000 + (hi16 % 1000) * 65536 + lo16
    IN Duration(FALSE, (hi16 \div 1000) * 65 + rem \div 1000000, rem % 1000000)

\* one iteration of the loop over params
ApplyParam(m, param) ==
    CASE param.Field = "success" -> [m EXCEPT !.Type = "success"]
      [] param.Field = "errmsg"  -> [m EXCEPT !.ErrMsg = param.Value]
      [] param.Field = "time_elapsed" ->
            [m EXCEPT !.TimeElapsed = DurationString(ScaleInt64(param.Value))]
      [] param.Field = "time_remaining" ->
            [m EXCEPT !.TimeRemaining = DurationString(ScaleUint32(param.Value))]
      [] param.Field = "downtime" ->
            [m EXCEPT !.Downtime = DurationString(ScaleInt64(param.Value))]
      [] param.Field = "setup_time" ->
            [m EXCEPT !.SetupTime = DurationString(ScaleInt64(param.Value))]
      [] OTHER -> m

RECURSIVE ApplyParams(_, _)
ApplyParams(m, params) ==
    IF params = <<>> THEN m
    ELSE ApplyParams(ApplyParam(m, Head(params)), Tail(params))

\* populateDomainJobInfo: the copy after the call, result r of DomainGetJobStats
populateDomainJobInfo(m, r) ==
    LET stamped == [m EXCEPT !.Destination = NodeLabelName] IN
    IF r.err # <<>> THEN stamped
    ELSE IF r.rType = VIR_DOMAIN_JOB_NONE THEN stamped
    ELSE ApplyParams([stamped EXCEPT !.Type = JobTypeImage(r.rType, stamped.Type)], r.params)

\* populateDomainJobInfo: the error it returns
populateErr(r) ==
    IF r.err # <<>> THEN r.err
    ELSE IF r.rType = VIR_DOMAIN_JOB_NONE THEN <<"errDomainNotFoud">>
    ELSE <<>>

\* errors.Is(err, errDomainNotFoud): the sentinel is in the chain of err
IsDomainNotFound(e) == \E i \in 1..Len(e) : e[i] = "errDomainNotFoud"

\* the test written as a comparison of the whole text
IsNotRunning_WholeText(e) == e = <<"domain is not running">>

\* patchMigration: the "domain is not running" test that skips the write
IsNotRunning(e) == e # <<>> /\ HasSuffix(e, <<"domain is not running">>)

\* what populateDomainJobInfo gave: its error and, for a present job, the
\* job type, the phase it decoded into the copy and the parameters it decoded
Undecoded == [err |-> <<>>, phase |-> "", params |-> <<>>, rType |-> 0]
Decoded(e, m, r) ==
    [err |-> e, phase |-> IF e = <<>> THEN m.Type ELSE "",
     params |-> IF e = <<>> THEN r.params ELSE <<>>,
     rType |-> IF e = <<>> THEN r.rType ELSE 0]

\* the event loop between two events: position, context, select case taken
Idle(at, c, took) ==
    [pc |-> at, ctx |-> c, took |-> took, cat |-> "none", snapshot |-> {},
     calls |-> <<>>]

\* ----------------------------------------------------------------- Init
Init ==
    /\ store = [d \in Domains |-> NotFound]
    /\ migrationJobs = [d \in Domains |-> NoWatch]
    /\ migrationLock = Unlocked
    /\ pc = [p \in Procs |-> IF p \in Threads THEN "idle" ELSE "unborn"]
    /\ dom = [p \in Procs |-> NoDomain]
    /\ event = [t \in Threads |-> "none"]
    /\ original = [p \in Procs |-> NoRecord]
    /\ patch = [p \in Procs |-> {}]
    /\ decoded = [p \in Procs |-> Undecoded]
    /\ ctx = [w \in Watches |-> "none"]
    /\ nextWatch = NumThreads + 1
    /\ wroteTerminal = [w \in Watches |-> FALSE]
    /\ domEventChs = [c \in Categories |-> NoChannel]
    /\ domEventChangeHandlers = [c \in Categories |-> [h \in HandlerIds |-> NoHandler]]
    /\ registered = [c \in Categories |-> <<>>]
    /\ eventLoop = Idle("off", "active", "none")
    /\ virt = [disconnected |-> FALSE, sent |-> 0]
    /\ lastWatch = [rejected |-> FALSE, result |-> "none"]
    /\ fd = NoFd
    /\ openFds = {}
    /\ prepareForShutdownSignal = [n |-> 0, registered |-> FALSE]
    /\ task = [c \in Callers |-> IF c = Reconciler THEN "idle" ELSE "unborn"]
    /\ evacuateOnReboot = FALSE
    /\ wanted = FALSE

\* -------------------------------------------------------------- helpers
InStart(t) == pc[t] \in {"sw_create", "sw_lock", "sw_get", "sw_patch"}

\* a registry without the mutex: Lock() never waits
MutexFree_NoMutex == TRUE

\* sync.Mutex: Lock() returns only when nobody holds the mutex
MutexFree == migrationLock = Unlocked

\* a return that keeps the mutex
Unlock_Kept(t) == migrationLock

\* the deferred Unlock of startMigrationWatch
Unlock(t) == IF migrationLock = t THEN Unlocked ELSE migrationLock

\* metav1.Now(): a fresh time stamp, the ordinal of the watch being started
Now == nextWatch - NumThreads

\* the completed argument of patchMigration: true from onLifecycleEvent,
\* false from watchMigrationLoop
Completed(p) == p \in Threads

\* a cancel function that leaves the context as it is
Cancel_NoEffect(w) == ctx

\* context.CancelFunc of watch w: the first cancellation wins
Cancel(w) == [ctx EXCEPT ![w] = IF @ = "active" THEN "canceled" ELSE @]

\* a handler or patchMigration returns: its locals are gone
Forget(p) ==
    /\ original' = [original EXCEPT ![p] = NoRecord]
    /\ patch' = [patch EXCEPT ![p] = {}]
    /\ decoded' = [decoded EXCEPT ![p] = Undecoded]
    /\ dom' = IF p \in Threads THEN [dom EXCEPT ![p] = NoDomain] ELSE dom
    /\ event' = IF p \in Threads THEN [event EXCEPT ![p] = "none"] ELSE event

\* ------------------------------------------------- lifecycle handlers
\* onMigrationIteration: every iteration event starts the watch; Q is the
\* number of watchers the behaviour may spawn
onMigrationIteration(t, d, Q) ==
    /\ \/ migrationJobs[d] # NoWatch
       \/ nextWatch + Cardinality({u \in Threads : InStart(u)}) <= NumThreads + Q
    /\ pc' = [pc EXCEPT ![t] = "sw_create"]

\* a handler that takes resumed for the start of a migration
onLifecycleEvent_ResumedStarts(t, k) ==
    IF k = "resumed"
    THEN pc' = [pc EXCEPT ![t] = "sw_create"]
    ELSE pc' = [pc EXCEPT ![t] = "stop"]

\* onLifecycleEvent: resumed finalizes, stopped and shutdown stop the watch
onLifecycleEvent(t, k) ==
    IF k = "resumed"
    THEN pc' = [pc EXCEPT ![t] = "pm_get"]
    ELSE pc' = [pc EXCEPT ![t] = "stop"]

\* runEventLoop hands one event of kind k for domain d to its handler
Dispatch(t, k, d, Q) ==
    /\ pc[t] = "idle"
    /\ IF k = "migration_iteration" THEN onMigrationIteration(t, d, Q)
       ELSE onLifecycleEvent(t, k)
    /\ dom' = [dom EXCEPT ![t] = d]
    /\ event' = [event EXCEPT ![t] = k]
    /\ UNCHANGED <<store, migrationJobs, migrationLock, original, patch,
                   decoded, ctx, nextWatch, wroteTerminal>>
    /\ UNCHANGED <<muxVars, sysVars>>

\* ----------------------------------------------- startMigrationWatch
\* a create that replaces the object the store holds
Create_Overwrite(d) == [store EXCEPT ![d] = EmptyMigration]

\* l.client.Create(ctx, &migr) with client.IgnoreAlreadyExists: an empty
\* object is stored unless the store holds one
Create(d) ==
    IF store[d].exists THEN store ELSE [store EXCEPT ![d] = EmptyMigration]

\* client.Create, an AlreadyExists error ignored
StartCreate(t) ==
    /\ pc[t] = "sw_create"
    /\ store' = Create(dom[t])
    /\ pc' = [pc EXCEPT ![t] = "sw_lock"]
    /\ UNCHANGED <<migrationJobs, migrationLock, dom, event, original, patch,
                   decoded, ctx, nextWatch, wroteTerminal>>
    /\ UNCHANGED <<muxVars, sysVars>>

\* Lock, then the check of the map: an existing watch makes the call a no-op
StartLock(t, Q) ==
    /\ pc[t] = "sw_lock"
    /\ MutexFree
    /\ IF migrationJobs[dom[t]] # NoWatch
       THEN /\ pc' = [pc EXCEPT ![t] = "idle"]
            /\ Forget(t)
            /\ UNCHANGED migrationLock
       ELSE /\ nextWatch <= NumThreads + Q
            /\ pc' = [pc EXCEPT ![t] = "sw_get"]
            /\ migrationLock' = t
            /\ UNCHANGED <<dom, event, original, patch, decoded>>
    /\ UNCHANGED <<store, migrationJobs, ctx, nextWatch, wroteTerminal>>
    /\ UNCHANGED <<muxVars, sysVars>>

\* client.Get of the object to stamp, the mutex held; the copy is stamped
\* with Started and Origin
StartGet(t) ==
    LET orig == store[dom[t]]
        patched == [orig EXCEPT !.Started = Now, !.Origin = NodeLabelName]
    IN
    /\ pc[t] = "sw_get"
    /\ orig.exists
    /\ patch' = [patch EXCEPT ![t] = MergeFrom(orig, patched)]
    /\ pc' = [pc EXCEPT ![t] = "sw_patch"]
    /\ UNCHANGED <<store, migrationJobs, migrationLock, dom, event, original,
                   decoded, ctx, nextWatch, wroteTerminal>>
    /\ UNCHANGED <<muxVars, sysVars>>

\* Status().Patch of the stamps, then the watch is registered and its
\* goroutine started under a 60 minute timeout
StartPatchAndSpawn(t) ==
    LET d == dom[t]
        w == nextWatch
    IN
    /\ pc[t] = "sw_patch"
    /\ store[d].exists
    /\ store' = [store EXCEPT ![d] = ApplyPatch(@, patch[t])]
    /\ migrationJobs' = [migrationJobs EXCEPT ![d] = w]
    /\ ctx' = [ctx EXCEPT ![w] = "active"]
    /\ pc' = [pc EXCEPT ![t] = "idle", ![w] = "wait"]
    /\ dom' = [dom EXCEPT ![w] = d, ![t] = NoDomain]
    /\ event' = [event EXCEPT ![t] = "none"]
    /\ patch' = [patch EXCEPT ![t] = {}]
    /\ nextWatch' = nextWatch + 1
    /\ migrationLock' = Unlock(t)
    /\ UNCHANGED <<original, decoded, wroteTerminal>>
    /\ UNCHANGED <<muxVars, sysVars>>

\* Create, Get or Patch returns an error: startMigrationWatch returns it
StartFails(t) ==
    /\ pc[t] \in {"sw_create", "sw_get", "sw_patch"}
    /\ pc' = [pc EXCEPT ![t] = "idle"]
    /\ migrationLock' = Unlock(t)
    /\ Forget(t)
    /\ UNCHANGED <<store, migrationJobs, ctx, nextWatch, wroteTerminal>>
    /\ UNCHANGED <<muxVars, sysVars>>

\* ------------------------------------------------ stopMigrationWatch
\* the lookup and cancel()
StopCancel(t) ==
    /\ pc[t] = "stop"
    /\ IF migrationJobs[dom[t]] # NoWatch
       THEN /\ ctx' = Cancel(migrationJobs[dom[t]])
            /\ pc' = [pc EXCEPT ![t] = "st_delete"]
            /\ UNCHANGED <<dom, event, original, patch, decoded>>
       ELSE /\ ctx' = ctx
            /\ pc' = [pc EXCEPT ![t] = "idle"]
            /\ Forget(t)
    /\ UNCHANGED <<store, migrationJobs, migrationLock, nextWatch, wroteTerminal>>
    /\ UNCHANGED <<muxVars, sysVars>>

\* a delete that empties the map
Delete_All(d) == [e \in Domains |-> NoWatch]

\* delete(l.migrationJobs, domain.Name): the map without the key
Delete(d) == [migrationJobs EXCEPT ![d] = NoWatch]

\* delete(l.migrationJobs, domain.Name)
StopDelete(t) ==
    /\ pc[t] = "st_delete"
    /\ migrationJobs' = Delete(dom[t])
    /\ pc' = [pc EXCEPT ![t] = "idle"]
    /\ Forget(t)
    /\ UNCHANGED <<store, migrationLock, ctx, nextWatch, wroteTerminal>>
    /\ UNCHANGED <<muxVars, sysVars>>

\* ----------------------------------------------------- patchMigration
\* the errors patchMigration returns when client.Get fails
GetNotFound == <<"failed to get migration status:", "not found">>
GetError == <<"failed to get migration status:", "api error">>
\* the error patchMigration returns when Status().Patch fails
PatchError == <<"failed to patch migration status:", "api error">>

\* where the caller goes when patchMigration returns err: the event loop
\* logs and is done; the watcher ends only on errDomainNotFoud
AfterPatchMigration(p, err) ==
    IF p \in Threads THEN "idle"
    ELSE IF IsDomainNotFound(err) THEN "done"
    ELSE "wait"

\* patchMigration returns err to its caller
Return(p, err) ==
    /\ pc' = [pc EXCEPT ![p] = AfterPatchMigration(p, err)]
    /\ ctx' = IF p \in Watches /\ AfterPatchMigration(p, err) = "done"
              THEN Cancel(p) ELSE ctx
    /\ Forget(p)

\* client.Get at the head of patchMigration
PatchGet(p) ==
    /\ pc[p] = "pm_get"
    /\ CtxAlive(p)
    /\ store[dom[p]].exists
    /\ original' = [original EXCEPT ![p] = store[dom[p]]]
    /\ pc' = [pc EXCEPT ![p] = "pm_query"]
    /\ UNCHANGED <<store, migrationJobs, migrationLock, dom, event, patch,
                   decoded, ctx, nextWatch, wroteTerminal>>
    /\ UNCHANGED <<muxVars, sysVars>>

\* client.Get fails, the object gone, the context done or the API failing:
\* patchMigration returns the error, nothing was written
PatchGetFails(p, err) ==
    /\ pc[p] = "pm_get"
    /\ err = GetNotFound => ~store[dom[p]].exists
    /\ Return(p, err)
    /\ UNCHANGED <<store, migrationJobs, migrationLock, nextWatch, wroteTerminal>>
    /\ UNCHANGED <<muxVars, sysVars>>

\* patchMigration without the quirk
Quirk_Absent(p, e, m) == m

\* the completed quirk of patchMigration: job details reaped
Quirk(p, e, m) ==
    IF Completed(p) /\ IsDomainNotFound(e) THEN [m EXCEPT !.Type = "completed"] ELSE m

\* populateDomainJobInfo with answer r of DomainGetJobStats, then the merge
\* patch of the copy against the object read
PatchQuery(p, r) ==
    LET e == populateErr(r)
        m == populateDomainJobInfo(original[p], r)
    IN
    /\ pc[p] = "pm_query"
    /\ decoded' = [decoded EXCEPT ![p] = Decoded(e, m, r)]
    /\ patch' = [patch EXCEPT ![p] =
           IF IsNotRunning(e) THEN {} ELSE MergeFrom(original[p], Quirk(p, e, m))]
    /\ original' = [original EXCEPT ![p] = NoRecord]
    /\ pc' = [pc EXCEPT ![p] = "pm_patch"]
    /\ UNCHANGED <<store, migrationJobs, migrationLock, dom, event, ctx,
                   nextWatch, wroteTerminal>>
    /\ UNCHANGED <<muxVars, sysVars>>

\* the "domain is not running" error: patchMigration returns nil, no write
PatchSkip(p) ==
    /\ pc[p] = "pm_patch"
    /\ IsNotRunning(decoded[p].err)
    /\ Return(p, <<>>)
    /\ UNCHANGED <<store, migrationJobs, migrationLock, nextWatch, wroteTerminal>>
    /\ UNCHANGED <<muxVars, sysVars>>

\* Status().Patch(ctx, migration, client.MergeFrom(&original))
PatchWrite(p) ==
    LET d == dom[p] IN
    /\ pc[p] = "pm_patch"
    /\ ~IsNotRunning(decoded[p].err)
    /\ CtxAlive(p)
    /\ store[d].exists
    /\ store' = [store EXCEPT ![d] = ApplyPatch(@, patch[p])]
    /\ wroteTerminal' =
         IF p \in Watches /\ \E pr \in patch[p] : pr[1] = "Type" /\ pr[2] \in Terminal
         THEN [wroteTerminal EXCEPT ![p] = TRUE] ELSE wroteTerminal
    /\ Return(p, <<>>)
    /\ UNCHANGED <<migrationJobs, migrationLock, nextWatch>>
    /\ UNCHANGED <<muxVars, sysVars>>

\* the patch fails: context done, object gone, or another API error
PatchWriteFails(p) ==
    /\ pc[p] = "pm_patch"
    /\ ~IsNotRunning(decoded[p].err)
    /\ Return(p, PatchError)
    /\ UNCHANGED <<store, migrationJobs, migrationLock, nextWatch, wroteTerminal>>
    /\ UNCHANGED <<muxVars, sysVars>>

\* --------------------------------------------------- watchMigrationLoop
\* case <-time.After(1 * time.Second) with ctx.Err() nil: a tick begins
WatchTick(w) ==
    /\ pc[w] = "wait"
    /\ ctx[w] = "active"
    /\ pc' = [pc EXCEPT ![w] = "pm_get"]
    /\ UNCHANGED <<store, migrationJobs, migrationLock, dom, event, original, patch,
                   decoded, ctx, nextWatch, wroteTerminal>>
    /\ UNCHANGED <<muxVars, sysVars>>

\* case <-ctx.Done(), or ctx.Err() != nil after the timer: the watcher returns
WatchStopped(w) ==
    /\ pc[w] = "wait"
    /\ ctx[w] # "active"
    /\ pc' = [pc EXCEPT ![w] = "done"]
    /\ UNCHANGED <<store, migrationJobs, migrationLock, dom, event, original, patch,
                   decoded, ctx, nextWatch, wroteTerminal>>
    /\ UNCHANGED <<muxVars, sysVars>>

\* the timer of context.WithTimeout(context.Background(), 60*time.Minute)
DeadlineExceeded(w) ==
    /\ ctx[w] = "active"
    /\ ctx' = [ctx EXCEPT ![w] = "deadline"]
    /\ UNCHANGED <<store, migrationJobs, migrationLock, pc, dom, event, original,
                   patch, decoded, nextWatch, wroteTerminal>>
    /\ UNCHANGED <<muxVars, sysVars>>

\* ---------------------------------------------------------- environment
\* somebody deletes the Migration object
ExternalDelete(d) ==
    /\ store[d].exists
    /\ store' = [store EXCEPT ![d] = NotFound]
    /\ UNCHANGED <<migrationJobs, migrationLock, pc, dom, event, original, patch,
                   decoded, ctx, nextWatch, wroteTerminal>>
    /\ UNCHANGED <<muxVars, sysVars>>

\* ------------------------------------------------- WatchDomainChanges
\* the handler ids the map of category c holds
HandlersOf(c) == {h \in HandlerIds : domEventChangeHandlers[c][h] # NoHandler}

\* the ids category c holds, in the order of their first registration
Register(c, h) ==
    IF \E i \in 1..Len(registered[c]) : registered[c][i] = h
    THEN registered ELSE [registered EXCEPT ![c] = Append(@, h)]

\* what the caller of WatchDomainChanges gets: the function returns no value
WatchReturns(err) == "returned"

\* a fresh map of handlers made on every registration
StoreHandler_FreshMap(c, h, f) ==
    [domEventChangeHandlers EXCEPT
        ![c] = [x \in HandlerIds |-> IF x = h THEN f ELSE NoHandler]]

\* l.domEventChangeHandlers[eventId][handlerId] = handler, the map of the
\* category made when it is missing
StoreHandler(c, h, f) == [domEventChangeHandlers EXCEPT ![c][h] = f]

\* WatchDomainChanges(eventId, handlerId, handler): the handler is stored,
\* then the category is subscribed to unless it has a channel; reject is
\* the daemon refusing the subscription
WatchDomainChanges(c, h, f, reject) ==
    /\ domEventChangeHandlers' = StoreHandler(c, h, f)
    /\ registered' = Register(c, h)
    /\ IF domEventChs[c].st # "none"
       THEN /\ ~reject
            /\ UNCHANGED domEventChs
            /\ lastWatch' = [rejected |-> FALSE, result |-> WatchReturns(FALSE)]
       ELSE /\ domEventChs' = IF reject THEN domEventChs
                              ELSE [domEventChs EXCEPT ![c] = OpenChannel]
            /\ lastWatch' = [rejected |-> reject, result |-> WatchReturns(reject)]
    /\ UNCHANGED <<eventLoop, virt>>
    /\ UNCHANGED <<watchVars, sysVars>>

\* ------------------------------------------------------- runEventLoop
\* go l.runEventLoop(context.Background())
LoopStart ==
    /\ eventLoop.pc = "off"
    /\ eventLoop' = [eventLoop EXCEPT !.pc = "poll"]
    /\ UNCHANGED <<domEventChs, domEventChangeHandlers, registered, virt, lastWatch>>
    /\ UNCHANGED <<watchVars, sysVars>>

\* the loop is at the select for the channel of category c
AtSelect(c) == eventLoop.pc = "poll" /\ domEventChs[c].st # "none"

\* case <-ctx.Done(): return
LoopCtxDone(c) ==
    /\ AtSelect(c)
    /\ eventLoop.ctx = "canceled"
    /\ eventLoop' = Idle("returned", eventLoop.ctx, "done")
    /\ UNCHANGED <<domEventChs, domEventChangeHandlers, registered, virt, lastWatch>>
    /\ UNCHANGED <<watchVars, sysVars>>

\* where the loop goes after case <-l.virt.Disconnected(): it logs, sleeps
\* five seconds and goes on with the next channel
AfterDisconnected == "poll"

\* case <-l.virt.Disconnected()
LoopDisconnected(c) ==
    /\ AtSelect(c)
    /\ virt.disconnected
    /\ eventLoop' = Idle(AfterDisconnected, eventLoop.ctx, "disconnected")
    /\ UNCHANGED <<domEventChs, domEventChangeHandlers, registered, virt, lastWatch>>
    /\ UNCHANGED <<watchVars, sysVars>>

\* where the loop goes after a receive with !ok: it logs and continues
AfterClosed == "poll"

\* case eventPayload, ok := <-ch with ok false: the channel is closed and empty
LoopClosed(c) ==
    /\ AtSelect(c)
    /\ domEventChs[c].st = "closed"
    /\ domEventChs[c].n = 0
    /\ eventLoop' = Idle(AfterClosed, eventLoop.ctx, "closed")
    /\ UNCHANGED <<domEventChs, domEventChangeHandlers, registered, virt, lastWatch>>
    /\ UNCHANGED <<watchVars, sysVars>>

\* one set of handlers for the events of every category
HandlerKey_OneForAll(c) == "lifecycle"

\* the category whose handlers are looked up for an event of category c
HandlerKey(c) == c

\* case eventPayload, ok := <-ch with ok true: an event is taken off the
\* channel and the iteration over the handlers of its category begins
LoopReceive(c) ==
    /\ AtSelect(c)
    /\ domEventChs[c].n > 0
    /\ domEventChs' = [domEventChs EXCEPT ![c].n = @ - 1]
    /\ eventLoop' = [eventLoop EXCEPT !.pc = "handle", !.took = "event",
                        !.cat = HandlerKey(c), !.snapshot = HandlersOf(HandlerKey(c)),
                        !.calls = <<>>]
    /\ UNCHANGED <<domEventChangeHandlers, registered, virt, lastWatch>>
    /\ UNCHANGED <<watchVars, sysVars>>

\* an iteration that may produce an entry again
Visited_Forgotten == {}

\* the handler ids the iteration has produced
Visited == {eventLoop.calls[i][1] : i \in 1..Len(eventLoop.calls)}

\* for _, handler := range handlers: the iteration produces the entries of
\* the map in no fixed order, each once; handler(ctx, eventPayload)
LoopCall(h) ==
    /\ eventLoop.pc = "handle"
    /\ h \in HandlersOf(eventLoop.cat) \ Visited
    /\ eventLoop' = [eventLoop EXCEPT
            !.calls = Append(@, <<h, domEventChangeHandlers[eventLoop.cat][h]>>)]
    /\ UNCHANGED <<domEventChs, domEventChangeHandlers, registered, virt, lastWatch>>
    /\ UNCHANGED <<watchVars, sysVars>>

\* the iteration ends: every entry the map held when it began was produced
LoopNext ==
    /\ eventLoop.pc = "handle"
    /\ eventLoop.snapshot \subseteq Visited
    /\ eventLoop' = Idle("poll", eventLoop.ctx, "event")
    /\ UNCHANGED <<domEventChs, domEventChangeHandlers, registered, virt, lastWatch>>
    /\ UNCHANGED <<watchVars, sysVars>>

\* ------------------------------------------------ the libvirt connection
\* events the daemon sends in a behaviour
MaxEvents == 2

\* the daemon sends an event of category c
DaemonSends(c) ==
    /\ domEventChs[c].st = "open"
    /\ virt.sent < MaxEvents
    /\ domEventChs' = [domEventChs EXCEPT ![c].n = @ + 1]
    /\ virt' = [virt EXCEPT !.sent = @ + 1]
    /\ UNCHANGED <<domEventChangeHandlers, registered, eventLoop, lastWatch>>
    /\ UNCHANGED <<watchVars, sysVars>>

\* the channel of category c is closed
ChannelCloses(c) ==
    /\ domEventChs[c].st = "open"
    /\ domEventChs' = [domEventChs EXCEPT ![c].st = "closed"]
    /\ UNCHANGED <<domEventChangeHandlers, registered, eventLoop, virt, lastWatch>>
    /\ UNCHANGED <<watchVars, sysVars>>

\* the connection to the daemon is lost: Disconnected() is closed
Disconnect ==
    /\ ~virt.disconnected
    /\ virt' = [virt EXCEPT !.disconnected = TRUE]
    /\ UNCHANGED <<domEventChs, domEventChangeHandlers, registered, eventLoop, lastWatch>>
    /\ UNCHANGED <<watchVars, sysVars>>

\* the context given to runEventLoop is cancelled
CancelRun ==
    /\ eventLoop.ctx = "active"
    /\ eventLoop.pc # "returned"
    /\ eventLoop' = [eventLoop EXCEPT !.ctx = "canceled"]
    /\ UNCHANGED <<domEventChs, domEventChangeHandlers, registered, virt, lastWatch>>
    /\ UNCHANGED <<watchVars, sysVars>>

\* the handler ids registered for category c: several handlers for the
\* lifecycle events, one for the others
HandlerIdsFor(c) == IF c = "lifecycle" THEN HandlerIds ELSE {"h1"}

\* the event channels, their handlers and one event loop
NextEvents ==
    \/ \E c \in Categories, h \in HandlerIds, f \in Callbacks, reject \in BOOLEAN :
            h \in HandlerIdsFor(c) /\ WatchDomainChanges(c, h, f, reject)
    \/ LoopStart
    \/ \E c \in Categories : LoopCtxDone(c)
    \/ \E c \in Categories : LoopDisconnected(c)
    \/ \E c \in Categories : LoopClosed(c)
    \/ \E c \in Categories : LoopReceive(c)
    \/ \E h \in HandlerIds : LoopCall(h)
    \/ LoopNext
    \/ \E c \in Categories : DaemonSends(c)
    \/ \E c \in Categories : ChannelCloses(c)
    \/ Disconnect
    \/ CancelRun

SpecEvents == Init /\ [][NextEvents]_vars

\* the goroutine of the event loop takes a step
LoopStep ==
    \/ LoopStart
    \/ \E c \in Categories : LoopCtxDone(c)
    \/ \E c \in Categories : LoopDisconnected(c)
    \/ \E c \in Categories : LoopClosed(c)
    \/ \E c \in Categories : LoopReceive(c)
    \/ \E h \in HandlerIds : LoopCall(h)
    \/ LoopNext

\* the event loop goes on whenever it can, and a select that finds
\* ctx.Done() ready again and again takes it in the end: select chooses
\* among its ready cases at random
SpecEventsFair ==
    /\ Init /\ [][NextEvents]_vars
    /\ WF_vars(LoopStep)
    /\ SF_vars(\E c \in Categories : LoopCtxDone(c))

\* --------------------------------------------- EnableShutdownInhibit
\* somebody changes Spec.EvacuateOnReboot of the hypervisor object
SpecChange ==
    /\ wanted' = ~wanted
    /\ UNCHANGED <<fd, openFds, prepareForShutdownSignal, task, evacuateOnReboot>>
    /\ UNCHANGED <<watchVars, muxVars>>

\* the descriptor the next Inhibit call returns
NextFd == Cardinality({g \in Inhibits : task[g] # "unborn"}) + 1

\* the results of the D-Bus calls of EnableShutdownInhibit
EnableOutcomes == {"list_fails", "inhibit_fails", "match_fails", "ok"}

\* Reconcile with Spec.EvacuateOnReboot set: EnableShutdownInhibit. A call
\* with a lock held, or a failing ListInhibitors or Inhibit, returns an
\* error and changes nothing; otherwise the descriptor is stored and the
\* goroutine started, and AddMatchSignal either fails or the channel is
\* registered and the reconciler notes the setting as applied
EnableShutdownInhibit(outcome) ==
    /\ task[Reconciler] = "idle"
    /\ wanted /\ ~evacuateOnReboot
    /\ IF fd # NoFd \/ outcome \in {"list_fails", "inhibit_fails"}
       THEN UNCHANGED <<fd, openFds, prepareForShutdownSignal, task,
                        evacuateOnReboot>>
       ELSE /\ NextFd <= MaxInhibits
            /\ fd' = NextFd
            /\ openFds' = openFds \cup {NextFd}
            /\ task' = [task EXCEPT ![NextFd] = "select"]
            /\ prepareForShutdownSignal' =
                    IF outcome = "ok"
                    THEN [prepareForShutdownSignal EXCEPT !.registered = TRUE]
                    ELSE prepareForShutdownSignal
            /\ evacuateOnReboot' = (outcome = "ok")
    /\ UNCHANGED wanted
    /\ UNCHANGED <<watchVars, muxVars>>

\* Reconcile with Spec.EvacuateOnReboot cleared: DisableShutdownInhibit
ReconcileDisable ==
    /\ task[Reconciler] = "idle"
    /\ ~wanted /\ evacuateOnReboot
    /\ task' = [task EXCEPT ![Reconciler] = "disable"]
    /\ UNCHANGED <<fd, openFds, prepareForShutdownSignal, evacuateOnReboot, wanted>>
    /\ UNCHANGED <<watchVars, muxVars>>

\* -------------------------------------------- DisableShutdownInhibit
\* where caller c is when DisableShutdownInhibit has returned: the
\* goroutine returns, the reconciler is done with the request
Returned(c) == IF c = Reconciler THEN "idle" ELSE "done"

\* the reconciler notes the setting as applied when the call returned nil
Applied(c, err) ==
    IF c = Reconciler /\ ~err THEN wanted ELSE evacuateOnReboot

\* if s.fd == -1 return nil; else RemoveSignal, and on to the send
DisableEnter(c) ==
    /\ task[c] = "disable"
    /\ IF fd = NoFd
       THEN /\ task' = [task EXCEPT ![c] = Returned(c)]
            /\ evacuateOnReboot' = Applied(c, FALSE)
            /\ UNCHANGED prepareForShutdownSignal
       ELSE /\ task' = [task EXCEPT ![c] = "send"]
            /\ prepareForShutdownSignal' =
                    [prepareForShutdownSignal EXCEPT !.registered = FALSE]
            /\ UNCHANGED evacuateOnReboot
    /\ UNCHANGED <<fd, openFds, wanted>>
    /\ UNCHANGED <<watchVars, muxVars>>

\* the goroutines that can take a value off shutdownCh: the channel has no
\* buffer, a send ends when a goroutine is at case <-s.shutdownCh
Receivers == {g \in Inhibits : task[g] = "select"}

\* s.shutdownCh <- true, received by goroutine g, which returns
DisableSend(c, g) ==
    /\ task[c] = "send"
    /\ g \in Receivers
    /\ task' = [task EXCEPT ![c] = "close",
                            ![g] = IF @ = "select" THEN "done" ELSE @]
    /\ UNCHANGED <<fd, openFds, prepareForShutdownSignal, evacuateOnReboot, wanted>>
    /\ UNCHANGED <<watchVars, muxVars>>

\* syscall.Close(s.fd): an error is returned and fd kept, or the
\* descriptor is closed and fd set to -1
DisableClose(c, ok) ==
    /\ task[c] = "close"
    /\ ok => fd \in openFds
    /\ fd' = IF ok THEN NoFd ELSE fd
    /\ openFds' = IF ok THEN openFds \ {fd} ELSE openFds
    /\ task' = [task EXCEPT ![c] = Returned(c)]
    /\ evacuateOnReboot' = Applied(c, ~ok)
    /\ UNCHANGED <<prepareForShutdownSignal, wanted>>
    /\ UNCHANGED <<watchVars, muxVars>>

\* ----------------------------------------------- the shutdown goroutine
\* logind announces a shutdown: PrepareForShutdown is put on the channel
\* registered with login1conn.Signal
SignalArrives ==
    /\ prepareForShutdownSignal.registered
    /\ prepareForShutdownSignal.n < SignalBuffer
    /\ prepareForShutdownSignal' = [prepareForShutdownSignal EXCEPT !.n = @ + 1]
    /\ UNCHANGED <<fd, openFds, task, evacuateOnReboot, wanted>>
    /\ UNCHANGED <<watchVars, muxVars>>

\* case signal, ok := <-s.prepareForShutdownSignal: the callback is called
TaskReceives(g) ==
    /\ task[g] = "select"
    /\ prepareForShutdownSignal.n > 0
    /\ prepareForShutdownSignal' = [prepareForShutdownSignal EXCEPT !.n = @ - 1]
    /\ task' = [task EXCEPT ![g] = "callback"]
    /\ UNCHANGED <<fd, openFds, evacuateOnReboot, wanted>>
    /\ UNCHANGED <<watchVars, muxVars>>

\* cb(context.Background()) returns, its error logged: the goroutine calls
\* s.DisableShutdownInhibit()
CallbackReturns(g) ==
    /\ task[g] = "callback"
    /\ task' = [task EXCEPT ![g] = "disable"]
    /\ UNCHANGED <<fd, openFds, prepareForShutdownSignal, evacuateOnReboot, wanted>>
    /\ UNCHANGED <<watchVars, muxVars>>

\* a goroutine or a caller of DisableShutdownInhibit takes a step
InhibitStep ==
    \/ \E c \in Callers : DisableEnter(c)
    \/ \E c \in Callers, g \in Inhibits : DisableSend(c, g)
    \/ \E c \in Callers, ok \in BOOLEAN : DisableClose(c, ok)
    \/ \E g \in Inhibits : TaskReceives(g)
    \/ \E g \in Inhibits : CallbackReturns(g)

\* the reconciler, logind and the shutdown goroutines
NextShutdown ==
    \/ SpecChange
    \/ \E outcome \in EnableOutcomes : EnableShutdownInhibit(outcome)
    \/ ReconcileDisable
    \/ SignalArrives
    \/ InhibitStep

\* every goroutine that can go on does
SpecShutdown == Init /\ [][NextShutdown]_vars /\ WF_vars(InhibitStep)

EventKinds == {"migration_iteration", "resumed", "stopped", "shutdown"}

\* the handlers and startMigrationWatch: event loops T take events of
\* kinds K for domains D and spawn at most Q watchers
Starting(T, K, D, Q) ==
    \/ \E t \in T, k \in K, d \in D : Dispatch(t, k, d, Q)
    \/ \E t \in T : StartCreate(t)
    \/ \E t \in T : StartLock(t, Q)
    \/ \E t \in T : StartGet(t)
    \/ \E t \in T : StartPatchAndSpawn(t)
    \/ \E t \in T : StartFails(t)

\* stopMigrationWatch
Stopping(T) ==
    \/ \E t \in T : StopCancel(t)
    \/ \E t \in T : StopDelete(t)

\* the ticks of the watchers and patchMigration, run by a tick or by a
\* finalize pass, the daemon answering from R
Polling(R) ==
    \/ \E w \in Watches : WatchTick(w)
    \/ \E p \in Procs : PatchGet(p)
    \/ \E p \in Procs, err \in {GetNotFound, GetError} : PatchGetFails(p, err)
    \/ \E p \in Procs, r \in R : PatchQuery(p, r)
    \/ \E p \in Procs : PatchSkip(p)
    \/ \E p \in Procs : PatchWrite(p)
    \/ \E p \in Procs : PatchWriteFails(p)

\* the ways a watch context ends and its watcher returns
Lifetime ==
    \/ \E w \in Watches : WatchStopped(w)
    \/ \E w \in Watches : DeadlineExceeded(w)

\* one event loop, as started by Connect
EventLoop == {t \in Threads : \A u \in Threads : t <= u}

\* the domain whose migration is followed
Tracked == {"vm-1"}

\* one event loop, one migrating domain, every answer of the daemon
Next ==
    \/ Starting(EventLoop, EventKinds, Tracked, MaxPolling)
    \/ Stopping(EventLoop)
    \/ Polling(JobStatsResults)
    \/ Lifetime
    \/ \E d \in Tracked : ExternalDelete(d)

Spec == Init /\ [][Next]_vars

\* concurrent event loops that only start watches, for every domain
NextStartWatch ==
    \/ Starting(Threads, {"migration_iteration"}, Domains, MaxWatches)
    \/ Lifetime
    \/ \E d \in Domains : ExternalDelete(d)

SpecStartWatch == Init /\ [][NextStartWatch]_vars

\* concurrent event loops that start and stop watches
NextRegistry ==
    \/ Starting(Threads, {"migration_iteration", "stopped", "shutdown"}, Domains,
                MaxWatches)
    \/ Stopping(Threads)
    \/ Lifetime

SpecRegistry == Init /\ [][NextRegistry]_vars

\* the answers of the daemon while a migration runs and when the domain
\* has stopped
RunningResults ==
    { Job(VIR_DOMAIN_JOB_BOUNDED, <<Param("no_such_field", 7)>>),
      Failure(ErrNotRunning) }

\* event loops that start and stop the watch of one domain while its
\* watcher polls
NextStopWatch ==
    \/ Starting(Threads, {"migration_iteration", "stopped", "shutdown"}, Tracked,
                MaxPolling)
    \/ Stopping(Threads)
    \/ Polling(RunningResults)
    \/ Lifetime

\* the goroutine of watcher w takes a step: its select returns, a call of
\* the client or of the daemon returns
WatcherStep(w) ==
    \/ WatchTick(w)
    \/ WatchStopped(w)
    \/ PatchGet(w)
    \/ \E err \in {GetNotFound, GetError} : PatchGetFails(w, err)
    \/ \E r \in RunningResults : PatchQuery(w, r)
    \/ PatchSkip(w)
    \/ PatchWrite(w)
    \/ PatchWriteFails(w)

\* every goroutine that can go on does: the watchers, and the event loops
\* inside stopMigrationWatch
SpecStopWatch ==
    /\ Init /\ [][NextStopWatch]_vars
    /\ \A w \in Watches : WF_vars(WatcherStep(w))
    /\ \A t \in Threads : WF_vars(StopCancel(t) \/ StopDelete(t))

\* one event loop and the watches of every domain, ended by a stop
NextDomains ==
    \/ Starting(EventLoop, EventKinds, Domains, MaxWatches)
    \/ Stopping(EventLoop)
    \/ Polling(RunningResults)
    \/ \E w \in Watches : WatchStopped(w)

SpecDomains == Init /\ [][NextDomains]_vars

\* one watch whose ticks are answered with the time parameters of a
\* running job
NextDecoder ==
    \/ Starting(EventLoop, {"migration_iteration"}, Tracked, MaxPolling)
    \/ \E w \in Watches : WatchTick(w)
    \/ \E w \in Watches : PatchGet(w)
    \/ \E w \in Watches, r \in DurationResults : PatchQuery(w, r)
    \/ \E w \in Watches : PatchWrite(w)
    \/ \E w \in Watches : PatchWriteFails(w)

SpecDecoder == Init /\ [][NextDecoder]_vars

\* one watch whose ticks are answered with the time remaining of a
\* running job
NextRemaining ==
    \/ Starting(EventLoop, {"migration_iteration"}, Tracked, MaxPolling)
    \/ \E w \in Watches : WatchTick(w)
    \/ \E w \in Watches : PatchGet(w)
    \/ \E w \in Watches, r \in RemainingResults : PatchQuery(w, r)
    \/ \E w \in Watches : PatchWrite(w)
    \/ \E w \in Watches : PatchWriteFails(w)

SpecRemaining == Init /\ [][NextRemaining]_vars

\* one watch whose ticks are answered with present jobs of every type
NextPhases ==
    \/ Starting(EventLoop, {"migration_iteration"}, Tracked, MaxPolling)
    \/ \E w \in Watches : WatchTick(w)
    \/ \E w \in Watches : PatchGet(w)
    \/ \E w \in Watches, r \in PhaseResults : PatchQuery(w, r)
    \/ \E w \in Watches : PatchWrite(w)
    \/ \E w \in Watches : PatchWriteFails(w)

SpecPhases == Init /\ [][NextPhases]_vars

\* ================================================================ claims
\* the watchers spawned for domain d
Spawned(d) == {w \in Watches : pc[w] # "unborn" /\ dom[w] = d}

\* process p takes a step of its own
Steps(p) == pc'[p] # pc[p]

\* C1: however concurrent startMigrationWatch calls for one domain interleave,
\* at most one watcher is ever spawned for the domain, the registry entry of
\* the domain is that watcher, and a call that finds an entry registers and
\* spawns nothing.
C1_OneWatchPerDomain ==
    /\ [](\A d \in Domains :
            /\ Cardinality(Spawned(d)) <= 1
            /\ migrationJobs[d] = NoWatch <=> Spawned(d) = {}
            /\ migrationJobs[d] # NoWatch => Spawned(d) = {migrationJobs[d]})
    /\ [][\A t \in Threads :
            (pc[t] = "sw_lock" /\ pc'[t] = "idle")
                => /\ migrationJobs[dom[t]] # NoWatch
                   /\ UNCHANGED <<migrationJobs, nextWatch>>]_vars

\* two calls for the same domain in flight, one holding the mutex and about
\* to register, the other waiting for the mutex
C1_Witness ==
    \E t, u \in Threads :
        /\ t # u
        /\ dom[t] = dom[u]
        /\ pc[t] = "sw_patch"
        /\ pc[u] = "sw_lock"

\* C2: a watcher whose tick decoded "bounded" goes on to another tick; a
\* watcher whose tick decoded completed, failed, cancelled or success ends
\* after that tick.
C2_EndsOnTerminalPhase ==
    [][\A w \in Watches :
        (pc[w] = "pm_patch" /\ Steps(w))
            => /\ decoded[w].phase = "bounded" => pc'[w] = "wait"
               /\ decoded[w].phase \in Terminal => pc'[w] = "done"]_vars

\* C3: once a watcher has ended, for whatever reason, the registry holds no
\* entry for it (a stopMigrationWatch between its cancel and its delete
\* aside), so that a later startMigrationWatch spawns a new watcher.
C3_EndedWatchDeregistered ==
    \A w \in Watches :
        (/\ pc[w] = "done"
         /\ ~\E t \in Threads : pc[t] = "st_delete" /\ dom[t] = dom[w])
            => migrationJobs[dom[w]] # w

\* C4: once the deadline of a watch has fired, its watcher issues no further
\* query to the daemon and no further write of the record.
C4_NothingAfterDeadline ==
    [][\A w \in Watches :
        (ctx[w] = "deadline" /\ Steps(w))
            => /\ ~(pc[w] = "pm_query" /\ pc'[w] = "pm_patch")
               /\ store' = store]_vars

C6_OnlyPhaseWritten ==
    \A t \in Threads :
        (pc[t] = "pm_patch" /\ IsDomainNotFound(decoded[t].err))
            => PatchFields(patch[t]) \subseteq {"Type"}

\* C6 amended: a finalize pass that decodes "no job" patches the phase to
\* "completed" and the destination to the local host name, each only where it
\* differs from the value read, changes no other field, and then ends.
C6_PhaseAndDestinationWritten ==
    [][\A t \in Threads :
        /\ (pc[t] = "pm_query" /\ pc'[t] = "pm_patch"
                /\ IsDomainNotFound(decoded'[t].err))
            => patch'[t] = MergeFrom(original[t],
                    [original[t] EXCEPT !.Type = "completed",
                                        !.Destination = NodeLabelName])
        /\ (pc[t] = "pm_patch" /\ IsDomainNotFound(decoded[t].err) /\ Steps(t))
            => /\ pc'[t] = "idle"
               /\ \/ store' = store
                  \/ /\ store[dom[t]].exists /\ store'[dom[t]].exists
                     /\ \A f \in StatusFields :
                          store'[dom[t]][f] # store[dom[t]][f]
                            => \/ f = "Type" /\ store'[dom[t]][f] = "completed"
                               \/ f = "Destination"
                                    /\ store'[dom[t]][f] = NodeLabelName]_vars

\* a finalize pass has decoded "no job" and is about to patch the phase to
\* "completed" together with the destination
C6_Witness ==
    \E t \in Threads :
        /\ pc[t] = "pm_patch"
        /\ IsDomainNotFound(decoded[t].err)
        /\ patch[t] = {<<"Type", "completed">>, <<"Destination", NodeLabelName>>}
        /\ store[dom[t]].exists

\* C7: a resumed event makes its event loop run patchMigration once, get,
\* query and patch in this order and none of them twice, with or without a
\* registered watch, and the handling leaves the registry as it was.
C7_ResumedFinalizesOnce ==
    [][\A t \in Threads :
        /\ (event'[t] = "resumed" /\ event[t] # "resumed") => pc'[t] = "pm_get"
        /\ (event[t] = "resumed" /\ Steps(t))
            => /\ pc[t] = "pm_get" => pc'[t] \in {"pm_query", "idle"}
               /\ pc[t] = "pm_query" => pc'[t] = "pm_patch"
               /\ pc[t] = "pm_patch" => pc'[t] = "idle"
               /\ pc'[t] = "idle" => event'[t] = "none"
               /\ migrationJobs' = migrationJobs
               /\ nextWatch' = nextWatch]_vars

\* a finalize pass about to write for a domain that has no registered watch
C7_Witness ==
    \E t \in Threads :
        /\ event[t] = "resumed"
        /\ pc[t] = "pm_patch"
        /\ migrationJobs[dom[t]] = NoWatch
        /\ Spawned(dom[t]) = {}

\* C8: a watcher whose tick finds the record gone ends: no further tick.
C8_RecordNotFoundEndsWatch ==
    [][\A w \in Watches :
        (/\ pc[w] = "pm_get"
         /\ ctx[w] = "active"
         /\ ~store[dom[w]].exists
         /\ Steps(w))
            => pc'[w] = "done"]_vars

C10_PhaseOnlyTowardsTerminal ==
    [][\A w \in Watches :
        (/\ wroteTerminal[w]
         /\ pc[w] = "pm_patch" /\ Steps(w)
         /\ store[dom[w]].exists /\ store'[dom[w]].exists)
            => \/ store'[dom[w]].Type = store[dom[w]].Type
               \/ store'[dom[w]].Type \notin NonTerminal]_vars

\* the number of calls the event loop made to handler id h for the event in hand
CallsTo(h) == Cardinality({i \in 1..Len(eventLoop.calls) : eventLoop.calls[i][1] = h})

\* the place of handler id h in the registration order of category c
PlaceOf(c, h) == CHOOSE i \in 1..Len(registered[c]) : registered[c][i] = h

\* C11: a registration changes the handler stored under its category and
\* handler id and no other entry, so that a second registration under the
\* same pair replaces the first and one under another id or category adds
\* to the existing ones; a later event is passed to the handler the map
\* holds under the id when it is called.
C11_RegistrationKeyedByCategoryAndId ==
    [][/\ \A c \in Categories, h \in HandlerIds :
            domEventChangeHandlers'[c][h] # domEventChangeHandlers[c][h]
                => /\ domEventChangeHandlers'[c][h] \in Callbacks
                   /\ \A c2 \in Categories, h2 \in HandlerIds :
                        <<c2, h2>> # <<c, h>>
                            => domEventChangeHandlers'[c2][h2]
                                    = domEventChangeHandlers[c2][h2]
       /\ Len(eventLoop'.calls) > Len(eventLoop.calls)
            => LET call == eventLoop'.calls[Len(eventLoop'.calls)] IN
               call[2] = domEventChangeHandlers[eventLoop.cat][call[1]]]_vars

\* handler f was called under id h1, g has replaced it since, and h2 and
\* the other category hold handlers of their own
C11_Witness ==
    /\ eventLoop.pc = "handle"
    /\ eventLoop.cat = "lifecycle"
    /\ eventLoop.calls = << <<"h1", "f">> >>
    /\ domEventChangeHandlers["lifecycle"]["h1"] = "g"
    /\ domEventChangeHandlers["lifecycle"]["h2"] = "f"
    /\ domEventChangeHandlers["migration_iteration"]["h1"] = "f"

\* C12: when the daemon rejects the subscription of a registration, the
\* caller of the registration gets a subscription error.
C12_RejectedSubscriptionReported ==
    lastWatch.rejected => lastWatch.result = "SubscriptionError"

\* C13: the handlers looked up for an event are those of the category on
\* whose channel it was received, and when the event loop is done with the
\* event it has called every handler id registered for that category when
\* the event was received exactly once, and no handler id twice.
C13_EachHandlerOnce ==
    [][/\ (eventLoop.pc = "poll" /\ eventLoop'.pc = "handle")
            => \A c \in Categories :
                 domEventChs'[c].n < domEventChs[c].n
                    => /\ eventLoop'.cat = c
                       /\ eventLoop'.snapshot = HandlersOf(c)
       /\ (eventLoop.pc = "handle" /\ eventLoop'.pc = "poll")
            => /\ \A h \in eventLoop.snapshot : CallsTo(h) = 1
               /\ \A h \in HandlerIds : CallsTo(h) <= 1
               /\ \A i \in 1..Len(eventLoop.calls) :
                    eventLoop.calls[i][2] \in Callbacks]_vars

\* both handlers of the lifecycle category were called for an event while
\* the other category holds a handler too
C13_Witness ==
    /\ eventLoop.pc = "handle"
    /\ eventLoop.cat = "lifecycle"
    /\ eventLoop.snapshot = HandlerIds
    /\ Len(eventLoop.calls) = 2
    /\ HandlersOf("migration_iteration") # {}

\* C14 as stated: the handlers called for an event were called in the
\* order of their registration.
C14_RegistrationOrder ==
    \A i, j \in 1..Len(eventLoop.calls) :
        i < j => PlaceOf(eventLoop.cat, eventLoop.calls[i][1])
                    < PlaceOf(eventLoop.cat, eventLoop.calls[j][1])

\* C14 amended: the handlers of the category are called one after the
\* other, one call a step and no handler id twice for an event, in an
\* order that is not fixed.
C14_OneAfterTheOther ==
    /\ [](\A h \in HandlerIds : CallsTo(h) <= 1)
    /\ [][eventLoop'.calls # eventLoop.calls
            => \/ eventLoop'.calls = <<>>
               \/ /\ Len(eventLoop'.calls) = Len(eventLoop.calls) + 1
                  /\ SubSeq(eventLoop'.calls, 1, Len(eventLoop.calls))
                        = eventLoop.calls]_vars

\* the handler registered second was called first
C14_Witness ==
    /\ registered["lifecycle"] = <<"h1", "h2">>
    /\ eventLoop.cat = "lifecycle"
    /\ Len(eventLoop.calls) = 2
    /\ eventLoop.calls[1][1] = "h2"
    /\ eventLoop.calls[2][1] = "h1"

\* C15: once the event loop has taken the disconnect signal it has
\* returned.
C15_DisconnectEndsLoop ==
    eventLoop.took = "disconnected" => eventLoop.pc = "returned"

\* C16: once the event loop has found a channel closed it has returned,
\* without a call to a handler.
C16_ClosedChannelEndsLoop ==
    eventLoop.took = "closed"
        => eventLoop.pc = "returned" /\ eventLoop.calls = <<>>

\* a field the patch of p is to change holds that very value already: the
\* record was written by somebody else after p read it
ChangedSinceRead(p) ==
    /\ store[dom[p]].exists
    /\ \E pr \in patch[p] : store[dom[p]][pr[1]] = pr[2]

\* C18: the write of a watcher tick is rejected, and changes nothing, when
\* another writer changed the record after the tick read it; the watcher
\* goes on to its next tick.
C18_StaleWriteRejected ==
    [][\A w \in Watches :
        (pc[w] = "pm_patch" /\ ChangedSinceRead(w) /\ Steps(w))
            => store' = store /\ pc'[w] = "wait"]_vars

\* C19: a watcher tick whose query fails with an error of the daemon that
\* is not one of the quirks writes nothing and leaves the watcher polling.
C19_DaemonErrorSkipsTick ==
    [][\A w \in Watches :
        (pc[w] = "pm_patch" /\ decoded[w].err = ErrInternal /\ Steps(w))
            => store' = store /\ pc'[w] = "wait"]_vars

\* C20: at most one process, watcher or event loop, is between the read of
\* the record of a domain and the answer to its job statistics query.
C20_OneQueryPerDomain ==
    \A d \in Domains :
        Cardinality({p \in Procs : pc[p] = "pm_query" /\ dom[p] = d}) <= 1

\* the record field a time parameter is decoded into
DurationField(f) ==
    CASE f = "time_elapsed" -> "TimeElapsed"
      [] f = "downtime" -> "Downtime"
      [] f = "setup_time" -> "SetupTime"

\* the text of a duration of n microseconds
MicrosecondsText(n) ==
    CASE n = 0 -> "0s"
      [] n = 5 -> "5µs"
      [] n = 1500 -> "1.5ms"
      [] n = 61000 -> "61ms"
      [] n = 3600000 -> "3.6s"
      [] n = 5000000 -> "5s"
      [] n = 0 - 5 -> "-5µs"

\* the text of a duration of n milliseconds
MillisecondsText(n) ==
    CASE n = 0 -> "0s"
      [] n = 5 -> "5ms"
      [] n = 1500 -> "1.5s"
      [] n = 61000 -> "1m1s"
      [] n = 3600000 -> "1h0m0s"
      [] n = 5000000 -> "1h23m20s"
      [] n = 0 - 5 -> "-5ms"

\* the record as watcher w is about to write it, at the step in which the
\* answer of the daemon is decoded
DecodedRecord(w) == ApplyPatch(original[w], patch'[w])

\* watcher w decodes the answer of the daemon in this step
Decodes(w) ==
    pc[w] = "pm_query" /\ pc'[w] = "pm_patch" /\ decoded'[w].err = <<>>

C21_NoCallUnderLock ==
    [][\A p \in Procs :
        (/\ pc[p] \in {"sw_create", "sw_get", "sw_patch", "pm_get", "pm_query",
                       "pm_patch"}
         /\ Steps(p))
            => migrationLock # p]_vars

\* C22: stopMigrationWatch accesses the registry under migrationLock: none
\* of its steps is taken while another event loop is inside the locked part
\* of startMigrationWatch; an entry it removes is the entry of a watch that
\* was cancelled, and for a domain without entry it changes nothing.
C22_StopUnderRegistryMutex ==
    [][\A t \in Threads :
        (pc[t] \in {"stop", "st_delete"} /\ Steps(t))
            => /\ \A u \in Threads \ {t} : migrationLock # u
               /\ \A d \in Domains :
                    migrationJobs'[d] # migrationJobs[d]
                        => /\ d = dom[t]
                           /\ migrationJobs'[d] = NoWatch
                           /\ ctx'[migrationJobs[d]] # "active"
               /\ (pc[t] = "stop" /\ migrationJobs[dom[t]] = NoWatch)
                    => UNCHANGED <<migrationJobs, ctx, store>>]_vars

\* C23 as stated: a startMigrationWatch for a domain that has a registry
\* entry is a no-op: none of its steps changes the registry or the record
\* store, none spawns a watcher, and it ends after the map check.
C23_WatchedStartIsNoOp ==
    [][\A t \in Threads :
        (InStart(t) /\ migrationJobs[dom[t]] # NoWatch /\ Steps(t))
            => /\ UNCHANGED <<store, migrationJobs, nextWatch, ctx>>
               /\ \A w \in Watches : pc'[w] = pc[w]
               /\ pc[t] = "sw_lock" => pc'[t] = "idle"]_vars

\* C23 amended: a startMigrationWatch for a domain that has a registry
\* entry changes no registry entry, spawns no watcher, stamps nothing and
\* ends after the map check; it leaves an existing record as it is and
\* creates an empty record when the record is missing.
C23_WatchedStartKeepsRecord ==
    [][\A t \in Threads :
        (InStart(t) /\ migrationJobs[dom[t]] # NoWatch /\ Steps(t))
            => /\ UNCHANGED <<migrationJobs, nextWatch, ctx>>
               /\ \A w \in Watches : pc'[w] = pc[w]
               /\ pc[t] = "sw_lock" => pc'[t] = "idle"
               /\ \A d \in Domains :
                    store'[d] # store[d]
                        => /\ d = dom[t]
                           /\ ~store[d].exists
                           /\ store'[d] = EmptyMigration]_vars

\* a start for a watched domain is at the map check, the record of the
\* domain created anew after its deletion and not stamped
C23_Witness ==
    \E t \in Threads :
        /\ pc[t] = "sw_lock"
        /\ migrationJobs[dom[t]] # NoWatch
        /\ store[dom[t]] = EmptyMigration

HasParam(ps, f) == \E i \in 1..Len(ps) : ps[i].Field = f

\* the value of the last parameter of ps named f
LastParam(ps, f) ==
    ps[CHOOSE i \in 1..Len(ps) :
            /\ ps[i].Field = f
            /\ \A j \in (i + 1)..Len(ps) : ps[j].Field # f].Value

\* the phase of a present job of type rType
PhaseOfJobType(rType) ==
    CASE rType = VIR_DOMAIN_JOB_BOUNDED   -> "bounded"
      [] rType = VIR_DOMAIN_JOB_UNBOUNDED -> "unbounded"
      [] rType = VIR_DOMAIN_JOB_COMPLETED -> "completed"
      [] rType = VIR_DOMAIN_JOB_FAILED    -> "failed"
      [] rType = VIR_DOMAIN_JOB_CANCELLED -> "cancelled"

\* C25: the phase decoded for a present job is the image of its job type,
\* or "success" when the parameters hold one named success, whatever the
\* job type; an errmsg parameter sets the error message, which is left
\* alone without one; and parameters of other names change no field.
C25_PhaseFromJobTypeAndParams ==
    [][\A w \in Watches :
        Decodes(w) =>
            LET d == decoded'[w]
                rec == DecodedRecord(w)
            IN
            /\ d.rType \in PresentJobTypes
            /\ rec.Type = IF HasParam(d.params, "success") THEN "success"
                          ELSE PhaseOfJobType(d.rType)
            /\ d.phase = rec.Type
            /\ rec.ErrMsg = IF HasParam(d.params, "errmsg")
                            THEN LastParam(d.params, "errmsg")
                            ELSE original[w].ErrMsg
            /\ \A f \in StatusFields \ {"Type", "ErrMsg", "Destination"} :
                    rec[f] = original[w][f]]_vars

\* a tick has decoded a failed job whose parameters hold errmsg and
\* success: the phase is success and the error message is to be written
C25_Witness ==
    \E w \in Watches :
        /\ pc[w] = "pm_patch"
        /\ decoded[w].rType = VIR_DOMAIN_JOB_FAILED
        /\ decoded[w].phase = "success"
        /\ HasParam(decoded[w].params, "errmsg")
        /\ <<"ErrMsg", "boom">> \in patch[w]

\* C26: once the context of a running event loop is cancelled the loop
\* eventually returns, whatever channels are open, none included, and
\* whatever events are pending.
C26_CancelledRunReturns ==
    (eventLoop.ctx = "canceled" /\ eventLoop.pc # "off")
        ~> (eventLoop.pc = "returned")

\* C27: a startMigrationWatch that returns from the create or the get, or
\* from the patch without having written, has failed: it leaves registry,
\* watchers and record as they were and does not keep the mutex; every
\* other return from the patch registers and spawns one watcher. A call
\* that finds no entry at the map check attempts the start.
C27_FailedStartRegistersNothing ==
    [][\A t \in Threads :
        /\ (pc[t] \in {"sw_create", "sw_get", "sw_patch"} /\ pc'[t] = "idle")
            => /\ migrationLock' # t
               /\ IF pc[t] = "sw_patch" /\ store' # store
                  THEN /\ migrationJobs'[dom[t]] = nextWatch
                       /\ pc'[nextWatch] = "wait"
                       /\ nextWatch' = nextWatch + 1
                  ELSE /\ UNCHANGED <<store, migrationJobs, nextWatch, ctx>>
                       /\ \A w \in Watches : pc'[w] = pc[w]
        /\ (pc[t] = "sw_lock" /\ migrationJobs[dom[t]] = NoWatch /\ Steps(t))
            => pc'[t] = "sw_get"]_vars

\* a start has failed after its create: the record of the domain is there
\* and not stamped, the domain has neither entry nor watcher, the mutex is
\* free, and the next call for the domain begins
C27_Witness ==
    \E d \in Domains, t \in Threads :
        /\ store[d] = EmptyMigration
        /\ migrationJobs[d] = NoWatch
        /\ Spawned(d) = {}
        /\ migrationLock = Unlocked
        /\ pc[t] = "sw_create" /\ dom[t] = d
        /\ \A u \in Threads \ {t} : pc[u] = "idle"

\* the domain process p works on in this step
DomainOf(p) == IF dom[p] # NoDomain THEN dom[p] ELSE dom'[p]

\* C28: a step of startMigrationWatch, of stopMigrationWatch, of a watcher
\* tick or of a finalize pass for one domain leaves the registry entry,
\* the record and the watchers of every other domain as they were.
C28_OtherDomainsUntouched ==
    [][\A p \in Procs :
        Steps(p) =>
            \A e \in Domains \ {DomainOf(p)} :
                /\ migrationJobs'[e] = migrationJobs[e]
                /\ store'[e] = store[e]
                /\ \A w \in Watches :
                        dom[w] = e
                            => /\ dom'[w] = e
                               /\ pc'[w] = pc[w]
                               /\ ctx'[w] = ctx[w]
                               /\ original'[w] = original[w]
                               /\ patch'[w] = patch[w]
                               /\ decoded'[w] = decoded[w]]_vars

\* the watch of one domain is being removed from the registry while the
\* other domain has an entry, a record and a watcher in the middle of a tick
C28_Witness ==
    \E t \in Threads, w \in Watches :
        /\ pc[t] = "st_delete"
        /\ dom[w] \in Domains \ {dom[t]}
        /\ migrationJobs[dom[w]] = w
        /\ pc[w] = "pm_patch"
        /\ patch[w] # {}
        /\ store[dom[w]].exists

\* C29: when the shutdown signal has been received and the callback has
\* returned, the goroutine eventually ends with the inhibition lock
\* released: the descriptor closed and fd back to -1.
C29_ShutdownReleasesInhibit ==
    \A g \in Inhibits :
        (task[g] = "disable") ~> (task[g] = "done" /\ fd = NoFd /\ g \notin openFds)

\* C30: a time_remaining parameter of value n is decoded into the text of
\* the duration that time_elapsed, downtime and setup_time of value n are
\* decoded into: n times the same factor, with no wrap at 2^32.
C30_TimeRemainingNoWrap ==
    [][\A w \in Watches :
        Decodes(w) =>
            \A i \in 1..Len(decoded'[w].params) :
                LET param == decoded'[w].params[i] IN
                param.Field = "time_remaining"
                    => DecodedRecord(w).TimeRemaining
                            = DurationString(ScaleInt64(param.Value))]_vars

====
